---- MODULE Spec2Model ----
(***************************************************************************)
(* Model of packager.go (package libjavabuildpack): Packager.Create and    *)
(* the helpers it calls (prePackage, cacheDependencies, createArchive,     *)
(* addFile, archivePath).                                                  *)
(*                                                                         *)
(* Strings and paths are sequences of one-character strings, so that the   *)
(* lexical operations of the code (strings.Split, strings.Replace,         *)
(* filepath.Join, filepath.Rel, time.Format) are computed, not assumed.    *)
(***************************************************************************)
EXTENDS Integers, Sequences, FiniteSets, TLC

VARIABLES
    Args,           \* os.Args: <<program>> or <<program, output directory>>
    Buildpack,      \* p.Buildpack: Root, Info.ID, Info.Version, PrePackage()
    now,            \* the wall clock read by time.Now()
    pathCalls,      \* results of the archivePath calls made so far (SpecPath)
    pc,             \* position of Create
    ret,            \* the error value Create returned (Nil: none)
    failed,         \* the stage that failed and the error it produced
    stages,         \* the stages started so far, in order
    cmdRuns,        \* number of times the pre-package command was run
    cmdResult,      \* what cmd.Run() returned
    includedFiles,  \* Create's local includedFiles
    deps,           \* cacheDependencies' local deps
    files,          \* cacheDependencies' local files
    dependencyFiles,\* Create's local dependencyFiles
    downloads,      \* the DownloadLayer calls made: <<[dep, layer]>>
    archiveFiles,   \* createArchive's parameter files
    attempted,      \* the paths addFile was called with, in order
    cur,            \* addFile's parameter path while addFile runs
    archive,        \* createArchive's local archive (destination path)
    mkdirCalls,     \* number of os.MkdirAll calls
    destOpens,      \* number of os.OpenFile calls on the destination
    dest,           \* the destination file on disk: [exists, entries]
    destBefore,     \* the destination file as it was before the run
    destOpen,       \* is the destination handle open
    srcOpen,        \* the source handles open now
    srcOpens        \* number of source files opened so far

pathVars == <<Args, Buildpack, now, pathCalls>>
runVars == <<pc, ret, failed, stages, cmdRuns, cmdResult, includedFiles, deps,
             files, dependencyFiles, downloads, archiveFiles, attempted, cur,
             archive, mkdirCalls, destOpens, dest, destBefore, destOpen,
             srcOpen, srcOpens>>
vars == <<Args, Buildpack, now, pathCalls, pc, ret, failed, stages, cmdRuns,
          cmdResult, includedFiles, deps, files, dependencyFiles, downloads,
          archiveFiles, attempted, cur, archive, mkdirCalls, destOpens, dest,
          destBefore, destOpen, srcOpen, srcOpens>>

----------------------------------------------------------------------------
(* Bounds *)

MaxTick == 2
MaxCalls == 2
MaxInclude == 2
MaxDeps == 2

----------------------------------------------------------------------------
(* Values *)

Nil == "nil"

SNAPSHOT == <<"S", "N", "A", "P", "S", "H", "O", "T">>
Dot == <<".">>
Slash == <<"/">>
DotDot == <<".", ".">>

----------------------------------------------------------------------------
(* package strings *)

Last(s) == s[Len(s)]
Front(s) == SubSeq(s, 1, Len(s) - 1)

HasPrefixAt(s, sub, i) ==
    /\ i + Len(sub) - 1 <= Len(s)
    /\ SubSeq(s, i, i + Len(sub) - 1) = sub

\* strings.Index: position of the first occurrence of sub in s, 0 if none
\* (Go returns the 0-based index or -1).
Index(s, sub) ==
    IF \E i \in 1..Len(s) : HasPrefixAt(s, sub, i)
    THEN CHOOSE i \in 1..Len(s) :
            /\ HasPrefixAt(s, sub, i)
            /\ \A j \in 1..(i - 1) : ~HasPrefixAt(s, sub, j)
    ELSE 0

Contains(s, sub) == Index(s, sub) # 0

RECURSIVE Replace(_, _, _, _)
\* strings.Replace(s, old, new, n): the first n non-overlapping occurrences
\* of old replaced by new; n < 0 replaces them all. old is never empty here.
Replace(s, old, new, n) ==
    LET i == Index(s, old) IN
    IF n = 0 \/ i = 0
    THEN s
    ELSE SubSeq(s, 1, i - 1) \o new
         \o Replace(SubSeq(s, i + Len(old), Len(s)), old, new,
                    IF n < 0 THEN n ELSE n - 1)

RECURSIVE Split(_, _)
\* strings.Split(s, sep) for a non-empty sep: the pieces between the
\* separators, empty pieces included.
Split(s, sep) ==
    LET i == Index(s, sep) IN
    IF i = 0
    THEN <<s>>
    ELSE <<SubSeq(s, 1, i - 1)>> \o Split(SubSeq(s, i + Len(sep), Len(s)), sep)

RECURSIVE StringsJoin(_, _)
\* strings.Join(elems, sep)
StringsJoin(elems, sep) ==
    IF elems = <<>> THEN <<>>
    ELSE IF Len(elems) = 1 THEN elems[1]
    ELSE elems[1] \o sep \o StringsJoin(Tail(elems), sep)

----------------------------------------------------------------------------
(* package path/filepath *)

IsAbs(path) == Len(path) > 0 /\ path[1] = "/"

RECURSIVE CleanSteps(_, _, _)
\* The component loop of filepath.Clean: drop empty and "." components, let
\* ".." cancel the component before it, drop ".." at the root, keep leading
\* ".." of a relative path.
CleanSteps(comps, out, rooted) ==
    IF comps = <<>> THEN out
    ELSE LET c == Head(comps) IN
         IF c = <<>> \/ c = Dot
         THEN CleanSteps(Tail(comps), out, rooted)
         ELSE IF c = DotDot
         THEN IF out # <<>> /\ Last(out) # DotDot
              THEN CleanSteps(Tail(comps), Front(out), rooted)
              ELSE IF rooted
                   THEN CleanSteps(Tail(comps), out, rooted)
                   ELSE CleanSteps(Tail(comps), Append(out, c), rooted)
         ELSE CleanSteps(Tail(comps), Append(out, c), rooted)

\* filepath.Clean
Clean(path) ==
    LET rooted == IsAbs(path)
        out == CleanSteps(Split(path, Slash), <<>>, rooted)
        body == StringsJoin(out, Slash)
    IN IF rooted THEN Slash \o body
       ELSE IF body = <<>> THEN Dot ELSE body

RECURSIVE NonEmpty(_)
NonEmpty(elems) ==
    IF elems = <<>> THEN <<>>
    ELSE IF Head(elems) = <<>> THEN NonEmpty(Tail(elems))
    ELSE <<Head(elems)>> \o NonEmpty(Tail(elems))

\* filepath.Join: the non-empty elements joined by "/" and cleaned; "" when
\* there is none.
FilepathJoin(elems) ==
    IF NonEmpty(elems) = <<>> THEN <<>>
    ELSE Clean(StringsJoin(NonEmpty(elems), Slash))

\* Components of a cleaned path ("/" and "." have none).
Components(path) ==
    LET body == IF IsAbs(path) THEN Tail(path) ELSE path IN
    IF body = <<>> \/ body = Dot THEN <<>> ELSE Split(body, Slash)

RECURSIVE CommonLen(_, _)
CommonLen(a, b) ==
    IF a = <<>> \/ b = <<>> \/ Head(a) # Head(b) THEN 0
    ELSE 1 + CommonLen(Tail(a), Tail(b))

ErrRel == "Rel: can't make path relative"

\* filepath.Rel(basepath, targpath): [path, err]. An error when one path is
\* absolute and the other is not, or when the rest of the base begins "..".
Rel(basepath, targpath) ==
    LET base == Clean(basepath)
        targ == Clean(targpath)
        b == Components(base)
        t == Components(targ)
        k == CommonLen(b, t)
        ups == [i \in 1..(Len(b) - k) |-> DotDot]
        rest == SubSeq(t, k + 1, Len(t))
    IN IF targ = base THEN [path |-> Dot, err |-> Nil]
       ELSE IF IsAbs(base) # IsAbs(targ)
       THEN [path |-> <<>>, err |-> ErrRel]
       ELSE IF k < Len(b) /\ b[k + 1] = DotDot
       THEN [path |-> <<>>, err |-> ErrRel]
       ELSE [path |-> StringsJoin(ups \o rest, Slash), err |-> Nil]

----------------------------------------------------------------------------
(* package time *)

Digit(n) == <<"0", "1", "2", "3", "4", "5", "6", "7", "8", "9">>[n + 1]
Pad2(n) == <<Digit((n \div 10) % 10), Digit(n % 10)>>
Pad4(n) == Pad2(n \div 100) \o Pad2(n % 100)

\* time.Time.Format("20060102.150405")
Format(t) ==
    Pad4(t.year) \o Pad2(t.month) \o Pad2(t.day) \o Dot
    \o Pad2(t.hour) \o Pad2(t.minute) \o Pad2(t.second)

\* The clock one second later (within one day).
AddSecond(t) ==
    IF t.second < 59 THEN [t EXCEPT !.second = @ + 1]
    ELSE IF t.minute < 59 THEN [t EXCEPT !.second = 0, !.minute = @ + 1]
    ELSE [t EXCEPT !.second = 0, !.minute = 0, !.hour = @ + 1]

RECURSIVE AddSeconds(_, _)
AddSeconds(t, k) == IF k = 0 THEN t ELSE AddSeconds(AddSecond(t), k - 1)

----------------------------------------------------------------------------
(* archivePath *)

ErrArgs == "incorrect number of command line arguments"

\* osArgs(index): os.Args[index], or an error when the argument is missing.
osArgs(args, index) ==
    IF Len(args) < index + 1
    THEN [val |-> <<>>, err |-> ErrArgs]
    ELSE [val |-> args[index + 1], err |-> Nil]

\* fmt.Sprintf("%s-%s.tgz", id, version)
SprintfFile(id, version) == id \o <<"-">> \o version \o <<".", "t", "g", "z">>

\* fmt.Sprintf("%s-1", timestamp)
SprintfStamp(stamp) == stamp \o <<"-", "1">>

\* Mutant: every SNAPSHOT is replaced.
ArchiveFileNameAll(info, t) ==
    Replace(SprintfFile(info.ID, info.Version), SNAPSHOT,
            SprintfStamp(Format(t)), -1)

\* The file name of the archive: the first SNAPSHOT of "<id>-<version>.tgz"
\* replaced by "<timestamp>-1".
ArchiveFileName(info, t) ==
    Replace(SprintfFile(info.ID, info.Version), SNAPSHOT,
            SprintfStamp(Format(t)), 1)

\* Packager.archivePath: [path, err]
archivePath(args, info, t) ==
    LET dir == osArgs(args, 1)
        path == <<dir.val>> \o Split(info.ID, Dot) \o <<info.ID, info.Version>>
                \o <<ArchiveFileName(info, t)>>
    IN IF dir.err # Nil
       THEN [path |-> <<>>, err |-> dir.err]
       ELSE [path |-> FilepathJoin(path), err |-> Nil]

----------------------------------------------------------------------------
(* Inputs *)

BoundedSeq(S, n) == UNION {[1..k -> S] : k \in 0..n}

IdExample == <<"c", "o", "m", ".", "e", "x", "a", "m", "p", "l", "e", ".", "b", "u", "i", "l", "d", "p", "a", "c", "k">>
IdPlain == <<"b", "p">>
IdSnapshot == <<"o", "r", "g", ".", "S", "N", "A", "P", "S", "H", "O", "T">>
Ids == {IdExample, IdPlain, IdSnapshot}

VersionRelease == <<"1", ".", "2", ".", "3">>
VersionSnapshot == <<"1", ".", "2", ".", "3", ".", "S", "N", "A", "P", "S", "H", "O", "T">>
VersionTwice == <<"1", ".", "S", "N", "A", "P", "S", "H", "O", "T", "-", "S", "N", "A", "P", "S", "H", "O", "T">>
Versions == {VersionRelease, VersionSnapshot, VersionTwice}

DirOut == <<"/", "o", "u", "t">>
DirRelative == <<"o", "u", "t">>
Program == <<"p", "a", "c", "k", "a", "g", "e">>
ArgLists == {<<Program>>, <<Program, DirOut>>, <<Program, DirRelative>>}

TimeExample ==
    [year |-> 2024, month |-> 1, day |-> 2, hour |-> 3, minute |-> 4, second |-> 5]
TimeCarry ==
    [year |-> 1999, month |-> 12, day |-> 31, hour |-> 9, minute |-> 59, second |-> 59]
StartTimes == {TimeExample, TimeCarry}

Root == <<"/", "b", "p">>
PrePackages == {[cmd |-> <<>>, ok |-> FALSE], [cmd |-> <<"c", "i", "/", "p", "r", "e">>, ok |-> TRUE]}

Buildpacks(ids, versions) ==
    [Root : {Root}, Info : [ID : ids, Version : versions], PrePackage : PrePackages]

\* What cmd.Run() can return.
CmdErrors == {"exit status 1", "exec: executable file not found"}
CmdOutcomes == {Nil} \cup CmdErrors

\* What Buildpack.IncludeFiles() can return.
ErrIncludeFiles == "IncludeFiles failed"
IncludePaths == {<<"a">>, <<".", ".", "/", "x">>, <<"/", "e">>}
IncludeResults ==
    {[files |-> <<>>, err |-> ErrIncludeFiles]}
    \cup {[files |-> f, err |-> Nil] : f \in BoundedSeq(IncludePaths, MaxInclude)}

\* What Buildpack.Dependencies() can return: dependencies 1..n, or an error.
ErrDependencies == "Dependencies failed"
DepsResults ==
    {[deps |-> <<>>, err |-> ErrDependencies]}
    \cup {[deps |-> [i \in 1..n |-> i], err |-> Nil] : n \in 0..MaxDeps}

\* What Cache.DownloadLayer(dep) can return: a layer whose Artifact() gives
\* a path or an error, and whose Metadata(layer.Root) gives a path.
ErrArtifact == "Artifact failed"
LayerInside ==
    [Artifact |-> [path |-> <<"/", "b", "p", "/", "c", "/", "a">>, err |-> Nil], Metadata |-> <<"/", "b", "p", "/", "c", "/", "m">>]
LayerOutside ==
    [Artifact |-> [path |-> <<"/", "c", "/", "a">>, err |-> Nil], Metadata |-> <<"/", "c", "/", "m">>]
LayerNoArtifact ==
    [Artifact |-> [path |-> <<>>, err |-> ErrArtifact], Metadata |-> <<"/", "b", "p", "/", "c", "/", "m">>]
LayerRelative ==
    [Artifact |-> [path |-> <<"c", "/", "a">>, err |-> Nil], Metadata |-> <<"c", "/", "m">>]
LayerRelativeMetadata ==
    [Artifact |-> [path |-> <<"/", "b", "p", "/", "c", "/", "a">>, err |-> Nil], Metadata |-> <<"c", "/", "m">>]
Layers == {LayerInside, LayerOutside, LayerNoArtifact, LayerRelative,
           LayerRelativeMetadata}

\* File-system errors.
ErrMkdirAll == "mkdir: permission denied"
ErrOpenFile == "open destination: permission denied"
ErrOpen == "open: no such file or directory"
ErrStat == "stat: input/output error"
ErrWriteHeader == "archive/tar: write error"
ErrCopy == "read: is a directory"

\* The destination before the run: absent, or present with earlier content.
OldEntry == [name |-> <<"o", "l", "d">>, complete |-> TRUE]
DestAbsent == [exists |-> FALSE, entries |-> <<>>]
DestPresent == [exists |-> TRUE, entries |-> <<OldEntry>>]

StageOrder == <<"prePackage", "IncludeFiles", "cacheDependencies", "createArchive">>

----------------------------------------------------------------------------
(* Packager.Create: control flow *)

\* Create returns a stage's error as it is (return err).
CreateReturn(err) == err

\* Mutant: Create goes on whatever the stage returned.
CreateNextIgnoringError(err, next) == next

\* Create goes on to the next stage only when the stage returned no error.
CreateNext(err, next) == IF err # Nil THEN "done" ELSE next

\* A stage has returned err to Create.
StageReturns(stage, err, next) ==
    /\ failed' = IF err # Nil THEN [stage |-> stage, err |-> err] ELSE failed
    /\ pc' = CreateNext(err, next)
    /\ ret' = IF err # Nil THEN CreateReturn(err) ELSE ret

----------------------------------------------------------------------------
(* prePackage *)

\* Mutant: the command's failure is dropped.
prePackageIgnoringFailure(pp, run) == Nil

\* Packager.prePackage: nil when no command is declared, else what running
\* the command returned.
prePackage(pp, run) == IF ~pp.ok THEN Nil ELSE run

PrePackage ==
    /\ pc = "start"
    /\ \E run \in CmdOutcomes :
        /\ Buildpack.PrePackage.ok \/ run = Nil
        /\ stages' = Append(stages, "prePackage")
        /\ cmdRuns' = IF Buildpack.PrePackage.ok THEN cmdRuns + 1 ELSE cmdRuns
        /\ cmdResult' = run
        /\ StageReturns("prePackage", prePackage(Buildpack.PrePackage, run),
                        "IncludeFiles")
    /\ UNCHANGED <<pathVars, includedFiles, deps, files, dependencyFiles,
                   downloads, archiveFiles, attempted, cur, archive, mkdirCalls,
                   destOpens, dest, destBefore, destOpen, srcOpen, srcOpens>>

----------------------------------------------------------------------------
(* IncludeFiles *)

IncludeFiles ==
    /\ pc = "IncludeFiles"
    /\ \E r \in IncludeResults :
        /\ stages' = Append(stages, "IncludeFiles")
        /\ includedFiles' = r.files
        /\ StageReturns("IncludeFiles", r.err, "cacheDependencies")
    /\ UNCHANGED <<pathVars, cmdRuns, cmdResult, deps, files, dependencyFiles,
                   downloads, archiveFiles, attempted, cur, archive, mkdirCalls,
                   destOpens, dest, destBefore, destOpen, srcOpen, srcOpens>>

----------------------------------------------------------------------------
(* cacheDependencies *)

\* Mutant: a dependency that fails is skipped and the loop goes on.
cacheDependencySkipping(fs, root, layer) ==
    LET a == layer.Artifact
        artifact == Rel(root, a.path)
        metadata == Rel(root, layer.Metadata)
    IN IF a.err # Nil \/ artifact.err # Nil \/ metadata.err # Nil
       THEN [files |-> fs, err |-> Nil]
       ELSE [files |-> fs \o <<artifact.path, metadata.path>>, err |-> Nil]

\* The body of the loop over deps for one layer: [files, err].
cacheDependency(fs, root, layer) ==
    LET a == layer.Artifact
        artifact == Rel(root, a.path)
        metadata == Rel(root, layer.Metadata)
    IN IF a.err # Nil THEN [files |-> <<>>, err |-> a.err]
       ELSE IF artifact.err # Nil THEN [files |-> <<>>, err |-> artifact.err]
       ELSE IF metadata.err # Nil THEN [files |-> <<>>, err |-> metadata.err]
       ELSE [files |-> fs \o <<artifact.path, metadata.path>>, err |-> Nil]

\* p.Buildpack.Dependencies()
Dependencies ==
    /\ pc = "cacheDependencies"
    /\ \E r \in DepsResults :
        /\ stages' = Append(stages, "cacheDependencies")
        /\ deps' = r.deps
        /\ files' = <<>>
        /\ dependencyFiles' = <<>>
        /\ StageReturns("cacheDependencies", r.err, "deps")
    /\ UNCHANGED <<pathVars, cmdRuns, cmdResult, includedFiles, downloads,
                   archiveFiles, attempted, cur, archive, mkdirCalls, destOpens,
                   dest, destBefore, destOpen, srcOpen, srcOpens>>

\* One iteration of the loop: DownloadLayer, Artifact, Rel, Rel, append.
CacheDependency ==
    /\ pc = "deps"
    /\ Len(downloads) < Len(deps)
    /\ \E layer \in Layers :
        LET dep == deps[Len(downloads) + 1]
            r == cacheDependency(files, Buildpack.Root, layer)
        IN /\ downloads' = Append(downloads, [dep |-> dep, layer |-> layer])
           /\ files' = IF r.err # Nil THEN files ELSE r.files
           /\ dependencyFiles' = IF r.err # Nil THEN r.files ELSE dependencyFiles
           /\ StageReturns("cacheDependencies", r.err, "deps")
    /\ UNCHANGED <<pathVars, stages, cmdRuns, cmdResult, includedFiles, deps,
                   archiveFiles, attempted, cur, archive, mkdirCalls, destOpens,
                   dest, destBefore, destOpen, srcOpen, srcOpens>>

\* return files, nil
CacheDependenciesReturn ==
    /\ pc = "deps"
    /\ Len(downloads) = Len(deps)
    /\ dependencyFiles' = files
    /\ StageReturns("cacheDependencies", Nil, "createArchive")
    /\ UNCHANGED <<pathVars, stages, cmdRuns, cmdResult, includedFiles, deps,
                   files, downloads, archiveFiles, attempted, cur, archive,
                   mkdirCalls, destOpens, dest, destBefore, destOpen, srcOpen,
                   srcOpens>>

----------------------------------------------------------------------------
(* createArchive and addFile *)

\* Mutant: the dependency files come first.
AppendFilesDependenciesFirst(included, dependency) == dependency \o included

\* append(includedFiles, dependencyFiles...)
AppendFiles(included, dependency) == included \o dependency

\* os.OpenFile(archive, O_RDWR|O_CREATE|O_TRUNC): the file exists and is
\* empty.
OpenTruncate(d) == [exists |-> TRUE, entries |-> <<>>]

\* Mutant: the directories are made before the path's error is looked at.
createArchiveOpenMkdirFirst(ap, d, io) ==
    IF ap.err # Nil
    THEN [err |-> ap.err, mkdir |-> 1, open |-> 0, dest |-> d, isOpen |-> FALSE]
    ELSE IF io = "mkdirFails"
    THEN [err |-> ErrMkdirAll, mkdir |-> 1, open |-> 0, dest |-> d, isOpen |-> FALSE]
    ELSE IF io = "openFails"
    THEN [err |-> ErrOpenFile, mkdir |-> 1, open |-> 1, dest |-> d, isOpen |-> FALSE]
    ELSE [err |-> Nil, mkdir |-> 1, open |-> 1, dest |-> OpenTruncate(d),
          isOpen |-> TRUE]

\* createArchive up to the loop: archivePath, MkdirAll, OpenFile. io is what
\* the file system does. The result says what was called and what came of it.
createArchiveOpen(ap, d, io) ==
    IF ap.err # Nil
    THEN [err |-> ap.err, mkdir |-> 0, open |-> 0, dest |-> d, isOpen |-> FALSE]
    ELSE IF io = "mkdirFails"
    THEN [err |-> ErrMkdirAll, mkdir |-> 1, open |-> 0, dest |-> d, isOpen |-> FALSE]
    ELSE IF io = "openFails"
    THEN [err |-> ErrOpenFile, mkdir |-> 1, open |-> 1, dest |-> d, isOpen |-> FALSE]
    ELSE [err |-> Nil, mkdir |-> 1, open |-> 1, dest |-> OpenTruncate(d),
          isOpen |-> TRUE]

\* Mutant: the source handle is left open.
addFileDeferMissing(handles, h) == handles

\* defer file.Close() of addFile: the source handle is closed on return.
addFileDefer(handles, h) == handles \ {h}

\* defer file.Close() of createArchive (after tw.Close() and gw.Close()).
createArchiveDefer(isOpen) == FALSE

\* Mutant: the incomplete archive is removed on error.
createArchiveOnErrorRemoving(d) == [exists |-> FALSE, entries |-> <<>>]

\* createArchive returns addFile's error and does nothing to the destination.
createArchiveOnError(d) == d

\* header.Name = path
HeaderName(path) == path

\* out.WriteHeader(header): the entry's header is in the archive.
WriteHeader(d, name) ==
    [d EXCEPT !.entries = Append(@, [name |-> name, complete |-> FALSE])]

\* io.Copy(out, file) to the end: the last entry is complete.
Copy(d) == [d EXCEPT !.entries[Len(d.entries)].complete = TRUE]

Handle == srcOpens

CreateArchive ==
    /\ pc = "createArchive"
    /\ \E io \in {"ok", "mkdirFails", "openFails"} :
        LET ap == archivePath(Args, Buildpack.Info, now)
            r == createArchiveOpen(ap, dest, io)
        IN /\ ap.err = Nil \/ io = "ok"
           /\ stages' = Append(stages, "createArchive")
           /\ archiveFiles' = AppendFiles(includedFiles, dependencyFiles)
           /\ archive' = ap.path
           /\ mkdirCalls' = mkdirCalls + r.mkdir
           /\ destOpens' = destOpens + r.open
           /\ dest' = r.dest
           /\ destOpen' = r.isOpen
           /\ StageReturns("createArchive", r.err, "addFile")
    /\ UNCHANGED <<pathVars, cmdRuns, cmdResult, includedFiles, deps, files,
                   dependencyFiles, downloads, attempted, cur, destBefore,
                   srcOpen, srcOpens>>

\* addFile returns err, so createArchive returns err, so Create returns err;
\* the deferred closes of addFile (when the source was opened) and of
\* createArchive run on the way.
AddFileFails(err, opened) ==
    /\ srcOpen' = IF opened THEN addFileDefer(srcOpen, Handle) ELSE srcOpen
    /\ destOpen' = createArchiveDefer(destOpen)
    /\ dest' = createArchiveOnError(dest)
    /\ StageReturns("createArchive", err, "done")

\* addFile: os.Open(filepath.Join(p.Buildpack.Root, path))
AddFileOpen ==
    /\ pc = "addFile"
    /\ Len(attempted) < Len(archiveFiles)
    /\ cur' = archiveFiles[Len(attempted) + 1]
    /\ attempted' = Append(attempted, archiveFiles[Len(attempted) + 1])
    /\ \/ /\ srcOpens' = srcOpens + 1
          /\ srcOpen' = srcOpen \cup {srcOpens + 1}
          /\ pc' = "Stat"
          /\ UNCHANGED <<ret, failed, destOpen, dest>>
       \/ /\ AddFileFails(ErrOpen, FALSE)
          /\ UNCHANGED srcOpens
    /\ UNCHANGED <<pathVars, stages, cmdRuns, cmdResult, includedFiles, deps,
                   files, dependencyFiles, downloads, archiveFiles, archive,
                   mkdirCalls, destOpens, destBefore>>

\* addFile: file.Stat()
AddFileStat ==
    /\ pc = "Stat"
    /\ \/ /\ pc' = "WriteHeader"
          /\ UNCHANGED <<ret, failed, destOpen, dest, srcOpen>>
       \/ AddFileFails(ErrStat, TRUE)
    /\ UNCHANGED <<pathVars, stages, cmdRuns, cmdResult, includedFiles, deps,
                   files, dependencyFiles, downloads, archiveFiles, attempted,
                   cur, archive, mkdirCalls, destOpens, destBefore, srcOpens>>

\* addFile: out.WriteHeader(header)
AddFileWriteHeader ==
    /\ pc = "WriteHeader"
    /\ \/ /\ dest' = WriteHeader(dest, HeaderName(cur))
          /\ pc' = "Copy"
          /\ UNCHANGED <<ret, failed, destOpen, srcOpen>>
       \/ AddFileFails(ErrWriteHeader, TRUE)
    /\ UNCHANGED <<pathVars, stages, cmdRuns, cmdResult, includedFiles, deps,
                   files, dependencyFiles, downloads, archiveFiles, attempted,
                   cur, archive, mkdirCalls, destOpens, destBefore, srcOpens>>

\* addFile: io.Copy(out, file) and return
AddFileCopy ==
    /\ pc = "Copy"
    /\ \/ /\ dest' = Copy(dest)
          /\ srcOpen' = addFileDefer(srcOpen, Handle)
          /\ pc' = "addFile"
          /\ UNCHANGED <<ret, failed, destOpen>>
       \/ AddFileFails(ErrCopy, TRUE)
    /\ UNCHANGED <<pathVars, stages, cmdRuns, cmdResult, includedFiles, deps,
                   files, dependencyFiles, downloads, archiveFiles, attempted,
                   cur, archive, mkdirCalls, destOpens, destBefore, srcOpens>>

\* createArchive: the loop is over, return nil
CreateArchiveReturn ==
    /\ pc = "addFile"
    /\ Len(attempted) = Len(archiveFiles)
    /\ destOpen' = createArchiveDefer(destOpen)
    /\ StageReturns("createArchive", Nil, "done")
    /\ UNCHANGED <<pathVars, stages, cmdRuns, cmdResult, includedFiles, deps,
                   files, dependencyFiles, downloads, archiveFiles, attempted,
                   cur, archive, mkdirCalls, destOpens, dest, destBefore,
                   srcOpen, srcOpens>>

----------------------------------------------------------------------------
(* The packaging run *)

NoFailure == [stage |-> "none", err |-> Nil]

InitRun ==
    /\ pathCalls = <<>>
    /\ pc = "start"
    /\ ret = Nil
    /\ failed = NoFailure
    /\ stages = <<>>
    /\ cmdRuns = 0
    /\ cmdResult = Nil
    /\ includedFiles = <<>>
    /\ deps = <<>>
    /\ files = <<>>
    /\ dependencyFiles = <<>>
    /\ downloads = <<>>
    /\ archiveFiles = <<>>
    /\ attempted = <<>>
    /\ cur = <<>>
    /\ archive = <<>>
    /\ mkdirCalls = 0
    /\ destOpens = 0
    /\ dest = destBefore
    /\ destOpen = FALSE
    /\ srcOpen = {}
    /\ srcOpens = 0

Init ==
    /\ Args \in {<<Program>>, <<Program, DirOut>>}
    /\ Buildpack \in Buildpacks({IdExample}, {VersionRelease, VersionSnapshot})
    /\ now = TimeExample
    /\ destBefore \in {DestAbsent, DestPresent}
    /\ InitRun

Next ==
    \/ PrePackage
    \/ IncludeFiles
    \/ Dependencies
    \/ CacheDependency
    \/ CacheDependenciesReturn
    \/ CreateArchive
    \/ AddFileOpen
    \/ AddFileStat
    \/ AddFileWriteHeader
    \/ AddFileCopy
    \/ CreateArchiveReturn

Spec == Init /\ [][Next]_vars

----------------------------------------------------------------------------
(* The Path Builder on its own: archivePath called at different times *)

\* The clock advances.
Tick ==
    /\ \E start \in StartTimes, k \in 0..(MaxTick - 1) : now = AddSeconds(start, k)
    /\ now' = AddSecond(now)
    /\ UNCHANGED <<Args, Buildpack, pathCalls, runVars>>

\* p.archivePath() is called now.
ArchivePathCall ==
    /\ Len(pathCalls) < MaxCalls
    /\ pathCalls' = Append(pathCalls,
            [at |-> now, res |-> archivePath(Args, Buildpack.Info, now)])
    /\ UNCHANGED <<Args, Buildpack, now, runVars>>

InitPath ==
    /\ Args \in ArgLists
    /\ Buildpack \in Buildpacks(Ids, Versions)
    /\ now \in StartTimes
    /\ destBefore = DestAbsent
    /\ InitRun

NextPath == Tick \/ ArchivePathCall

SpecPath == InitPath /\ [][NextPath]_vars

----------------------------------------------------------------------------
(* Properties of the packaging run (Spec) *)

Names(entries) == [i \in 1..Len(entries) |-> entries[i].name]

AddFileErrors == {ErrOpen, ErrStat, ErrWriteHeader, ErrCopy}

\* C1: Create runs prePackage, IncludeFiles, cacheDependencies, createArchive
\* in this order, each at most once; a stage starts only while no earlier
\* stage has failed; when a stage fails Create is over, no later stage has
\* started, and Create returns the error that stage produced; when no stage
\* fails all four have run and Create returns nil.
C1_StageOrder ==
    /\ stages = SubSeq(StageOrder, 1, Len(stages))
    /\ failed.err # Nil =>
        /\ pc = "done"
        /\ failed.stage = Last(stages)
        /\ ret = failed.err
    /\ ret # Nil => failed.err # Nil
    /\ (pc = "done" /\ failed.err = Nil) => (ret = Nil /\ stages = StageOrder)

C1_Witness ==
    /\ pc = "done"
    /\ failed.stage = "cacheDependencies"
    /\ ret = ErrArtifact
    /\ stages = SubSeq(StageOrder, 1, 3)

\* C2: when the declared pre-package command fails, Create returns that
\* error, MkdirAll and OpenFile are never called and the destination is as it
\* was; when no command is declared nothing is run, the hook stage does not
\* fail and Create goes on to IncludeFiles.
C2_PrePackage ==
    /\ (Buildpack.PrePackage.ok /\ cmdResult # Nil) =>
        /\ pc = "done"
        /\ ret = cmdResult
        /\ stages = <<"prePackage">>
        /\ mkdirCalls = 0
        /\ destOpens = 0
        /\ dest = destBefore
    /\ (~Buildpack.PrePackage.ok /\ pc # "start") =>
        /\ cmdRuns = 0
        /\ failed.stage # "prePackage"
        /\ pc = "IncludeFiles" \/ (Len(stages) >= 2 /\ stages[2] = "IncludeFiles")

C2_Witness ==
    /\ Buildpack.PrePackage.ok
    /\ cmdResult \in CmdErrors
    /\ pc = "done"
    /\ destBefore = DestAbsent
    /\ ~dest.exists

RECURSIVE DependencyPairs(_)
\* For each DownloadLayer call in order: the artifact path, then the metadata
\* path, both relative to the buildpack root.
DependencyPairs(calls) ==
    IF calls = <<>> THEN <<>>
    ELSE <<Rel(Buildpack.Root, Head(calls).layer.Artifact.path).path,
           Rel(Buildpack.Root, Head(calls).layer.Metadata).path>>
         \o DependencyPairs(Tail(calls))

\* C3: after a successful run the archive holds, complete and in this order,
\* the files IncludeFiles returned and then for each declared dependency in
\* declaration order its artifact and its metadata, and nothing else.
C3_ArchiveContent ==
    (pc = "done" /\ ret = Nil) =>
        /\ Len(downloads) = Len(deps)
        /\ \A i \in 1..Len(deps) : downloads[i].dep = deps[i]
        /\ Names(dest.entries) = includedFiles \o DependencyPairs(downloads)
        /\ \A i \in 1..Len(dest.entries) : dest.entries[i].complete

C3_Witness ==
    /\ pc = "done"
    /\ ret = Nil
    /\ Len(includedFiles) = 2
    /\ includedFiles[1] # includedFiles[2]
    /\ Len(deps) = 2
    /\ downloads[1].layer # downloads[2].layer

\* A path that is absolute or has a ".." step.
Escapes(path) ==
    \/ IsAbs(path)
    \/ \E i \in 1..Len(Split(path, Slash)) : Split(path, Slash)[i] = DotDot

\* C6: every entry written to the archive has a relative name without a
\* ".." step.
C6_EntriesInsideRoot ==
    destOpens > 0 => \A i \in 1..Len(dest.entries) : ~Escapes(dest.entries[i].name)

\* C7: at most one source handle is open at a time; a source handle is open
\* only inside addFile and the destination handle only inside createArchive;
\* when Create has returned, with or without an error, none is open.
C7_HandlesClosed ==
    /\ Cardinality(srcOpen) <= 1
    /\ pc \in {"Stat", "WriteHeader", "Copy"} => (srcOpen = {srcOpens} /\ destOpen)
    /\ pc \notin {"Stat", "WriteHeader", "Copy"} => srcOpen = {}
    /\ pc \notin {"addFile", "Stat", "WriteHeader", "Copy"} => ~destOpen

C7_Witness ==
    /\ pc = "done"
    /\ ret = ErrCopy
    /\ srcOpens = 2
    /\ destOpens = 1

BadLayers == {LayerNoArtifact, LayerRelative, LayerRelativeMetadata}

\* C8: DownloadLayer is called for the dependencies one at a time in
\* declaration order; once a layer's artifact lookup or a relativization
\* fails, cacheDependencies returns that error and no files, no later
\* dependency gets a DownloadLayer call, and createArchive does not start.
C8_FailFast ==
    /\ Len(downloads) <= Len(deps)
    /\ \A i \in 1..Len(downloads) : downloads[i].dep = deps[i]
    /\ \A i \in 1..(Len(downloads) - 1) : downloads[i].layer \notin BadLayers
    /\ (downloads # <<>> /\ Last(downloads).layer \in BadLayers) =>
        /\ pc = "done"
        /\ failed.stage = "cacheDependencies"
        /\ ret = IF Last(downloads).layer = LayerNoArtifact
                 THEN ErrArtifact ELSE ErrRel
        /\ dependencyFiles = <<>>
        /\ stages = SubSeq(StageOrder, 1, 3)

C8_Witness ==
    /\ pc = "done"
    /\ Len(deps) = 2
    /\ Len(downloads) = 1
    /\ downloads[1].layer = LayerRelativeMetadata

\* C9 as claimed: when addFile fails, the destination exists, its earlier
\* content is gone, no later file is attempted, and the archive holds
\* entries only for the files before the failing one.
C9_StrictPrefix ==
    (pc = "done" /\ ret \in AddFileErrors) =>
        /\ dest.exists
        /\ \A i \in 1..Len(dest.entries) : dest.entries[i] # OldEntry
        /\ attempted = SubSeq(archiveFiles, 1, Len(attempted))
        /\ Names(dest.entries) = SubSeq(archiveFiles, 1, Len(attempted) - 1)

\* C9 as amended: when addFile fails, the destination exists, its earlier
\* content is gone, no later file is attempted, the files before the failing
\* one have complete entries, and the archive holds one more entry exactly
\* when the copy of the failing file failed: that file's header, incomplete.
C9_PrefixWithPartialEntry ==
    (pc = "done" /\ ret \in AddFileErrors) =>
        LET k == Len(attempted)
            n == IF ret = ErrCopy THEN k ELSE k - 1
        IN /\ dest.exists
           /\ \A i \in 1..Len(dest.entries) : dest.entries[i] # OldEntry
           /\ k >= 1
           /\ attempted = SubSeq(archiveFiles, 1, k)
           /\ Names(dest.entries) = SubSeq(archiveFiles, 1, n)
           /\ \A i \in 1..n : dest.entries[i].complete <=> i < k

C9_Witness ==
    /\ pc = "done"
    /\ ret = ErrCopy
    /\ destBefore = DestPresent
    /\ Len(attempted) = 2
    /\ Len(archiveFiles) = 4

\* C10: when the output directory argument is missing, MkdirAll and OpenFile
\* are never called and the destination stays as it was; the error is
\* returned by createArchive, after the declared command has run and
\* succeeded and after DownloadLayer has been called for every declared
\* dependency; and a run that reaches createArchive returns that error.
C10_MissingArgument ==
    Len(Args) < 2 =>
        /\ mkdirCalls = 0
        /\ destOpens = 0
        /\ dest = destBefore
        /\ ret = ErrArgs =>
            /\ failed.stage = "createArchive"
            /\ Buildpack.PrePackage.ok => (cmdRuns = 1 /\ cmdResult = Nil)
            /\ Len(downloads) = Len(deps)
            /\ \A i \in 1..Len(deps) : downloads[i].dep = deps[i]
        /\ Len(stages) = 4 => (pc = "done" /\ ret = ErrArgs)

C10_Witness ==
    /\ Len(Args) < 2
    /\ pc = "done"
    /\ ret = ErrArgs
    /\ Buildpack.PrePackage.ok
    /\ Len(deps) = 2
    /\ destBefore = DestPresent

----------------------------------------------------------------------------
(* Properties of the Path Builder (SpecPath) *)

\* r is s with its first occurrence of old replaced by new.
FirstReplaced(s, old, new, r) ==
    \E i \in 1..Len(s) :
        /\ HasPrefixAt(s, old, i)
        /\ \A j \in 1..(i - 1) : ~HasPrefixAt(s, old, j)
        /\ r = SubSeq(s, 1, i - 1) \o new \o SubSeq(s, i + Len(old), Len(s))

DotsToSlashes(id) == [i \in 1..Len(id) |-> IF id[i] = "." THEN "/" ELSE id[i]]

\* <dir>/<id segments>/<id>/<versionDir>/<file>
PathOf(dir, id, versionDir, file) ==
    dir \o Slash \o DotsToSlashes(id) \o Slash \o id \o Slash \o versionDir
    \o Slash \o file

Stamp(t) == Format(t) \o <<"-", "1">>

PathExample ==
    <<"/", "o", "u", "t", "/", "c", "o", "m", "/", "e", "x", "a", "m", "p", "l", "e", "/", "b", "u", "i", "l", "d", "p", "a", "c", "k", "/", "c", "o", "m", ".", "e", "x", "a", "m", "p", "l", "e", ".", "b", "u", "i", "l", "d", "p", "a", "c", "k", "/", "1", ".", "2", ".", "3", "/", "c", "o", "m", ".", "e", "x", "a", "m", "p", "l", "e", ".", "b", "u", "i", "l", "d", "p", "a", "c", "k", "-", "1", ".", "2", ".", "3", ".", "t", "g", "z">>
PathSnapshotExample ==
    <<"/", "o", "u", "t", "/", "c", "o", "m", "/", "e", "x", "a", "m", "p", "l", "e", "/", "b", "u", "i", "l", "d", "p", "a", "c", "k", "/", "c", "o", "m", ".", "e", "x", "a", "m", "p", "l", "e", ".", "b", "u", "i", "l", "d", "p", "a", "c", "k", "/", "1", ".", "2", ".", "3", ".", "S", "N", "A", "P", "S", "H", "O", "T", "/", "c", "o", "m", ".", "e", "x", "a", "m", "p", "l", "e", ".", "b", "u", "i", "l", "d", "p", "a", "c", "k", "-", "1", ".", "2", ".", "3", ".", "2", "0", "2", "4", "0", "1", "0", "2", ".", "0", "3", "0", "4", "0", "5", "-", "1", ".", "t", "g", "z">>
VersionStampedExample == <<"1", ".", "2", ".", "3", ".", "2", "0", "2", "4", "0", "1", "0", "2", ".", "0", "3", "0", "4", "0", "5", "-", "1">>

Succeeded == {i \in 1..Len(pathCalls) : pathCalls[i].res.err = Nil}

\* C4 as claimed: for a version containing SNAPSHOT, whatever the id, the
\* version in the destination path is the version with its first SNAPSHOT
\* replaced by <timestamp>-1, in the version segment and in the file name;
\* 1.2.3.SNAPSHOT at 2024-01-02T03:04:05 gives the version segment
\* 1.2.3.20240102.030405-1.
C4_VersionStamped ==
    \A i \in Succeeded :
        LET id == Buildpack.Info.ID
            version == Buildpack.Info.Version
            comps == Split(pathCalls[i].res.path, Slash)
        IN Contains(version, SNAPSHOT) =>
            /\ \E v \in {comps[Len(comps) - 1]} :
                /\ FirstReplaced(version, SNAPSHOT, Stamp(pathCalls[i].at), v)
                /\ Last(comps) = SprintfFile(id, v)
            /\ (version = VersionSnapshot /\ pathCalls[i].at = TimeExample)
                => comps[Len(comps) - 1] = VersionStampedExample

\* C4 as amended: for a version containing SNAPSHOT, whatever the id, the
\* file name is <id>-<version>.tgz with its first SNAPSHOT (in the id when
\* the id has one, else in the version) replaced by <timestamp>-1 and the
\* rest untouched, and the version segment is the version unchanged; id
\* com.example.buildpack, version 1.2.3.SNAPSHOT, directory /out at
\* 2024-01-02T03:04:05 gives
\* /out/com/example/buildpack/com.example.buildpack/1.2.3.SNAPSHOT/com.example.buildpack-1.2.3.20240102.030405-1.tgz.
C4_FileNameStamped ==
    \A i \in Succeeded :
        LET id == Buildpack.Info.ID
            version == Buildpack.Info.Version
            path == pathCalls[i].res.path
            comps == Split(path, Slash)
        IN Contains(version, SNAPSHOT) =>
            /\ FirstReplaced(id \o <<"-">> \o version \o <<".", "t", "g", "z">>,
                             SNAPSHOT, Stamp(pathCalls[i].at), Last(comps))
            /\ path = PathOf(Args[2], id, version, Last(comps))
            /\ (/\ id = IdExample
                /\ version = VersionSnapshot
                /\ Args[2] = DirOut
                /\ pathCalls[i].at = TimeExample) => path = PathSnapshotExample

C4_Witness ==
    /\ Buildpack.Info.Version = VersionTwice
    /\ Buildpack.Info.ID = IdExample
    /\ Len(pathCalls) = 2
    /\ pathCalls[1].res.err = Nil
    /\ pathCalls[1].at # pathCalls[2].at

\* C5: for a version without SNAPSHOT, two calls of archivePath with the
\* same directory, id and version give the same path at any two times, and
\* the path is <dir>/<id segments>/<id>/<version>/<id>-<version>.tgz;
\* /out, com.example.buildpack, 1.2.3 give
\* /out/com/example/buildpack/com.example.buildpack/1.2.3/com.example.buildpack-1.2.3.tgz.
C5_ReleasePathTimeless ==
    LET id == Buildpack.Info.ID
        version == Buildpack.Info.Version
    IN ~Contains(version, SNAPSHOT) =>
        /\ \A i, j \in Succeeded : pathCalls[i].res.path = pathCalls[j].res.path
        /\ \A i \in Succeeded :
            /\ pathCalls[i].res.path
                = PathOf(Args[2], id, version,
                         id \o <<"-">> \o version \o <<".", "t", "g", "z">>)
            /\ (id = IdExample /\ version = VersionRelease /\ Args[2] = DirOut)
                => pathCalls[i].res.path = PathExample

\* The same with an id that has no SNAPSHOT either.
ReleasePathTimelessForPlainId ==
    ~Contains(Buildpack.Info.ID, SNAPSHOT) => C5_ReleasePathTimeless

====
